---------------------------- MODULE Spec2Model ----------------------------
(***************************************************************************)
(* MAI engine tools: the run-length codec of the CM raster format          *)
(* (Png2Cm.py rle_encode, CM2Png.py rle_decode) and the MAI archive        *)
(* container (ARC_MAI_PACK_UNPAK.py try_open, pack_files).                 *)
(*                                                                         *)
(* Byte buffers are sequences of 0..255.  Python offsets are 0-based:      *)
(* Slice(s, a, b) is s[a:b], clamped at the end of s as Python clamps it.  *)
(***************************************************************************)
EXTENDS Integers, Sequences, FiniteSets, TLC

VARIABLES
    \* ---- codec (Png2Cm.py / CM2Png.py)
    input_data,     \* rle_encode's input buffer
    pixel_size,     \* bytes per pixel
    i,              \* rle_encode's cursor (byte offset into input_data)
    output,         \* rle_encode's output so far
    segs,           \* history: the segments rle_encode emitted, in order
    enc_status,     \* "running" | "returned" | "raised"
    image_data,     \* the bytes convert_cm_to_png read for data_length
    decoded,        \* rle_decode's result
    dec_status,     \* "none" | "returned" | "raised"
    cpc,            \* "idle" | "encode" | "written" | "read" | "decoded"
    \* ---- archive (ARC_MAI_PACK_UNPAK.py)
    directory,      \* pack_files' source: the walked files, <<path, data>> records
    basename,       \* os.path.basename of the archive's path
    file,           \* the archive's bytes on disk
    count,          \* try_open's locals ...
    dir_entries,
    dir_level,
    index_offset,
    folders,        \* [none |-> TRUE] for None, else [none |-> FALSE, list |-> ...]
    is_mask_arc,
    dir,
    next_folder,
    folder,
    current_folder,
    entry_i,        \* the i of try_open's for loop
    result,         \* "pending" | "None" | "opened" | the exception that escaped
    index_reads,    \* history: index records (flat or directory) read so far
    pc              \* "idle" | "pack" | "check_size" | ... | "done"

cvars == <<input_data, pixel_size, i, output, segs, enc_status,
           image_data, decoded, dec_status, cpc>>

\* try_open's locals
lvars == <<count, dir_entries, dir_level, index_offset, folders, is_mask_arc, dir,
           next_folder, folder, current_folder, entry_i>>

avars == <<directory, basename, file, lvars, result, index_reads, pc>>

vars == <<cvars, avars>>

-----------------------------------------------------------------------------
\* Python helpers

Min(a, b) == IF a <= b THEN a ELSE b

\* s[a:b] for 0 <= a, with Python's clamping at len(s)
Slice(s, a, b) == SubSeq(s, a + 1, Min(b, Len(s)))

\* pixel * count
Repeat(pixel, n) ==
    [k \in 1..(n * Len(pixel)) |-> pixel[((k - 1) % Len(pixel)) + 1]]

\* 0x80 | n for a byte-sized n
Or80(n) == IF (n \div 128) % 2 = 1 THEN n ELSE n + 128

\* code & 0x7f
And7f(code) == code % 128

-----------------------------------------------------------------------------
\* Bounds of the inputs

MaxBlocks == 2

PixelSizes == {1, 3}
PixelValues == {0, 1}
RepLens == {1, 2, 3, 127, 128}
AltLens == {127, 128}

\* the pixel of value v: its bytes overlap those of the next value, so that a
\* comparison at an unaligned offset could match
Pixel(v, ps) == [k \in 1..ps |-> v + k]

\* n pixels of values v, 1 - v, v, ...
Alternate(v, n, ps) ==
    [k \in 1..(n * ps) |-> Pixel((v + ((k - 1) \div ps)) % 2, ps)[((k - 1) % ps) + 1]]

\* a block of the input: n equal pixels, n alternating pixels, or the four
\* pixels v, 1-v, 1-v, v (a pair of equal pixels between two others)
Blocks == [kind : {"rep"}, v : PixelValues, n : RepLens]
          \cup [kind : {"alt"}, v : PixelValues, n : AltLens]
          \cup [kind : {"pair"}, v : PixelValues, n : {4}]

BlockBytes(b, ps) ==
    CASE b.kind = "rep" -> Repeat(Pixel(b.v, ps), b.n)
      [] b.kind = "alt" -> Alternate(b.v, b.n, ps)
      [] b.kind = "pair" -> Pixel(b.v, ps) \o Pixel(1 - b.v, ps)
                            \o Pixel(1 - b.v, ps) \o Pixel(b.v, ps)

RECURSIVE Build(_, _)
Build(bs, ps) ==
    IF bs = <<>> THEN <<>> ELSE BlockBytes(Head(bs), ps) \o Build(Tail(bs), ps)

BlockSeqs == UNION {[1..k -> Blocks] : k \in 0..MaxBlocks}

\* nothing, or a trailing partial pixel of one byte
Tails(ps) == {[k \in 1..t |-> 1] : t \in 0..Min(1, ps - 1)}

-----------------------------------------------------------------------------
\* Png2Cm.py rle_encode

RunCap == 127

\* the least element of a non-empty set of integers
Least(S) == CHOOSE x \in S : \A y \in S : x <= y

\* the cursor values a scan that starts at j and steps by ps can take before
\* the cap of RunCap pixels (counted from start) stops it
ScanPositions(ps, start, j) == {j + k * ps : k \in 0..(RunCap + 1)}

\* RunScan with the cap test written <= : a run of 128 pixels
RunScanCapOffByOne(data, ps, run_start, j) ==
    Least({c \in ScanPositions(ps, run_start, j) :
             ~(/\ c + ps <= Len(data)
               /\ c - run_start <= RunCap * ps
               /\ Slice(data, c, c + ps) = Slice(data, run_start, run_start + ps))})

\* lines 27-30: the cursor after the scan for a run of identical pixels: the
\* first cursor value at which the loop condition or the comparison fails
RunScan(data, ps, run_start, j) ==
    Least({c \in ScanPositions(ps, run_start, j) :
             ~(/\ c + ps <= Len(data)
               /\ c - run_start < RunCap * ps
               /\ Slice(data, c, c + ps) = Slice(data, run_start, run_start + ps))})

\* TripleAt testing two identical pixels only
TripleAtPairOnly(data, ps, j) ==
    /\ j + ps * 2 <= Len(data)
    /\ Slice(data, j, j + ps) = Slice(data, j + ps, j + ps * 2)

\* line 42: three consecutive identical pixels begin at j
TripleAt(data, ps, j) ==
    /\ j + ps * 2 <= Len(data)
    /\ Slice(data, j, j + ps) = Slice(data, j + ps, j + ps * 2)
    /\ Slice(data, j + ps, j + ps * 2) = Slice(data, j + ps * 2, j + ps * 3)

\* LiteralScan with the cap test written <= : a literal of 128 pixels
LiteralScanCapOffByOne(data, ps, literal_start, j) ==
    Least({c \in ScanPositions(ps, literal_start, j) :
             ~(/\ c + ps <= Len(data)
               /\ c - literal_start <= RunCap * ps
               /\ ~TripleAt(data, ps, c))})

\* lines 41-44: the cursor after the scan for a literal span: the first cursor
\* value at which the loop condition fails or the break of line 43 is taken
LiteralScan(data, ps, literal_start, j) ==
    Least({c \in ScanPositions(ps, literal_start, j) :
             ~(/\ c + ps <= Len(data)
               /\ c - literal_start < RunCap * ps
               /\ ~TripleAt(data, ps, c))})

\* lines 35-36
RepeatSegment(data, ps, run_start, run_length) ==
    <<Or80(run_length) % 256>> \o Slice(data, run_start, run_start + ps)

\* lines 47-48
LiteralSegment(data, literal_start, j, literal_length) ==
    <<literal_length>> \o Slice(data, literal_start, j)

\* one iteration of the outer loop, lines 24-48
EncodeSegment ==
    /\ cpc = "encode"
    /\ i < Len(input_data)
    /\ LET run_start == i
           j == RunScan(input_data, pixel_size, run_start, i)
           run_length == (j - run_start) \div pixel_size
       IN IF run_length > 1
          THEN /\ output' = output \o RepeatSegment(input_data, pixel_size, run_start, run_length)
               /\ i' = j
               /\ segs' = Append(segs, [kind |-> "repeat", start |-> run_start,
                                        end |-> j, count |-> run_length])
          ELSE LET literal_start == run_start
                   e == LiteralScan(input_data, pixel_size, literal_start,
                                    literal_start + pixel_size)
                   literal_length == (e - literal_start) \div pixel_size
               IN /\ output' = output \o LiteralSegment(input_data, literal_start, e, literal_length)
                  /\ i' = e
                  /\ segs' = Append(segs, [kind |-> "literal", start |-> literal_start,
                                           end |-> e, count |-> literal_length])
    /\ UNCHANGED <<input_data, pixel_size, enc_status, image_data, decoded, dec_status, cpc>>
    /\ UNCHANGED avars

\* line 50 (the loop condition of line 24 is false), then convert_png_to_cm
\* lines 82-101 write the compressed data with data_length = len(compressed_data)
EncodeReturn ==
    /\ cpc = "encode"
    /\ ~(i < Len(input_data))
    /\ enc_status' = "returned"
    /\ cpc' = "written"
    /\ UNCHANGED <<input_data, pixel_size, i, output, segs, image_data, decoded, dec_status>>
    /\ UNCHANGED avars

-----------------------------------------------------------------------------
\* CM2Png.py

MaxCut == 1

\* convert_cm_to_png lines 59-60: file.read(data_length); the header's
\* data_length is whatever the file says, here len(compressed) - cut
ReadData(cut) ==
    /\ cpc = "written"
    /\ cut <= Len(output)
    /\ image_data' = Slice(output, 0, Len(output) - cut)
    /\ cpc' = "read"
    /\ UNCHANGED <<input_data, pixel_size, i, output, segs, enc_status, decoded, dec_status>>
    /\ UNCHANGED avars

\* rle_decode lines 29-39 from cursor j with output out
RECURSIVE DecodeFrom(_, _, _, _)
DecodeFrom(data, ps, j, out) ==
    IF ~(j < Len(data)) THEN out
    ELSE LET code == data[j + 1]
             k == j + 1
         IN IF code < 128
            THEN DecodeFrom(data, ps, k + code * ps,
                            out \o Slice(data, k, k + code * ps))
            ELSE LET repeat_count == And7f(code)
                     pixel == Slice(data, k, k + ps)
                 IN DecodeFrom(data, ps, k + ps, out \o Repeat(pixel, repeat_count))

\* rle_decode lines 26-40
rle_decode(data, ps) == DecodeFrom(data, ps, 0, <<>>)

\* convert_cm_to_png line 63; rle_decode has no raise and no failing call:
\* input_data[i] is guarded by i < len(input_data) and slices never fail
RleDecode ==
    /\ cpc = "read"
    /\ decoded' = rle_decode(image_data, pixel_size)
    /\ dec_status' = "returned"
    /\ cpc' = "decoded"
    /\ UNCHANGED <<input_data, pixel_size, i, output, segs, enc_status, image_data>>
    /\ UNCHANGED avars

-----------------------------------------------------------------------------
\* ARC_MAI_PACK_UNPAK.py: Python and struct helpers.  Text is a sequence of
\* character codes; ASCII text and its bytes are the same sequence.

\* the greatest element of a non-empty set of integers
Greatest(S) == CHOOSE x \in S : \A y \in S : x >= y

\* struct.pack('<I', v), 0 <= v
LE32(v) == <<v % 256, (v \div 256) % 256, (v \div 65536) % 256, (v \div 16777216) % 256>>

\* f.seek(offset); f.read(n) returns all n bytes; struct.unpack raises
\* struct.error on fewer
CanRead(f, offset, n) == offset >= 0 /\ offset + n <= Len(f)

\* read_uint32, lines 82-85
read_uint32(f, offset) ==
    f[offset + 1] + 256 * f[offset + 2] + 65536 * f[offset + 3] + 16777216 * f[offset + 4]

\* read_int32, lines 87-90: two's complement
read_int32(f, offset) ==
    f[offset + 1] + 256 * f[offset + 2] + 65536 * f[offset + 3]
        + 16777216 * (IF f[offset + 4] >= 128 THEN f[offset + 4] - 256 ELSE f[offset + 4])

\* read_uint16, lines 92-95
read_uint16(f, offset) == f[offset + 1] + 256 * f[offset + 2]

\* read_byte, lines 97-100
read_byte(f, offset) == f[offset + 1]

\* .decode('ascii') of the bytes read does not raise UnicodeDecodeError
AsciiOk(f, offset, length) ==
    \A k \in (offset + 1)..Min(offset + length, Len(f)) : f[k] < 128

\* .rstrip('\x00')
RStrip0(s) == SubSeq(s, 1, Greatest({0} \cup {k \in 1..Len(s) : s[k] # 0}))

\* read_string, lines 102-105, when the bytes are ASCII
read_string(f, offset, length) == RStrip0(Slice(f, offset, offset + length))

Slash == 47
Dot == 46
Backslash == 92

\* os.path.join(a, b) (posixpath): an absolute b discards a
path_join(a, b) ==
    IF b # <<>> /\ b[1] = Slash THEN b
    ELSE IF a = <<>> \/ a[Len(a)] = Slash THEN a \o b
    ELSE a \o <<Slash>> \o b

\* s.lower() on ASCII letters
Lower(s) == [k \in DOMAIN s |-> IF s[k] \in 65..90 THEN s[k] + 32 ELSE s[k]]

\* "mask.arc"
MaskArc == <<109, 97, 115, 107, 46, 97, 114, 99>>

\* detect_file_type, lines 107-119 (the 4 bytes at offset are readable)
detect_file_type(f, offset) ==
    LET signature == read_uint32(f, offset)
        signature_type == signature % 65536
    IN CASE signature_type = 19779 -> ".cm"
         [] signature_type = 19777 -> ".am"
         [] signature_type = 19778 -> ".bmp"
         [] signature_type = 4276 -> ".msk"
         [] OTHER -> ".bin"

\* check_placement, lines 121-122
check_placement(entry, max_offset) == entry.offset + entry.size <= max_offset

-----------------------------------------------------------------------------
\* try_open, lines 23-80

HeaderSize == 16
RecordSize == 24
DirRecordSize == 8
MaxCount == 1048575

\* line 25 (negated): the declared size is the file's
SizeMatches(file_size, actual) == file_size = actual

\* CountInRange letting a count of 0 through
CountInRangeZeroAllowed(c) == ~(c < 0 \/ c > MaxCount)

\* line 29 (negated)
CountInRange(c) == ~(c <= 0 \/ c > MaxCount)

\* line 36 (negated)
IndexFits(index_size, fsize, off) == ~(index_size > fsize - off)

Return(r) == result' = r /\ pc' = "done"

\* lines 24-26
CheckSize ==
    /\ pc = "check_size"
    /\ IF ~CanRead(file, 4, 4) THEN Return("struct.error")
       ELSE IF ~SizeMatches(read_uint32(file, 4), Len(file)) THEN Return("None")
       ELSE pc' = "check_count" /\ UNCHANGED result
    /\ UNCHANGED <<directory, basename, file, lvars, index_reads>>
    /\ UNCHANGED cvars

\* lines 28-30
CheckCount ==
    /\ pc = "check_count"
    /\ IF ~CanRead(file, 8, 4)
       THEN Return("struct.error") /\ UNCHANGED count
       ELSE /\ count' = read_int32(file, 8)
            /\ IF ~CountInRange(count') THEN Return("None")
               ELSE pc' = "check_index" /\ UNCHANGED result
    /\ UNCHANGED <<dir_entries, dir_level, index_offset, folders, is_mask_arc, dir,
                   next_folder, folder, current_folder, entry_i>>
    /\ UNCHANGED <<directory, basename, file, index_reads>>
    /\ UNCHANGED cvars

\* lines 32-37
CheckIndexSize ==
    /\ pc = "check_index"
    /\ IF ~CanRead(file, 13, 1) \/ ~CanRead(file, 14, 2)
       THEN Return("struct.error") /\ UNCHANGED <<dir_level, dir_entries, index_offset>>
       ELSE /\ dir_level' = read_byte(file, 13)
            /\ dir_entries' = read_uint16(file, 14)
            /\ index_offset' = HeaderSize
            /\ LET index_size == count * RecordSize + dir_entries' * DirRecordSize
               IN IF ~IndexFits(index_size, Len(file), index_offset') THEN Return("None")
                  ELSE pc' = "folders" /\ UNCHANGED result
    /\ UNCHANGED <<count, folders, is_mask_arc, dir, next_folder, folder,
                   current_folder, entry_i>>
    /\ UNCHANGED <<directory, basename, file, index_reads>>
    /\ UNCHANGED cvars

\* the directory record k (1-based) of lines 43-47
FolderRecord(k) ==
    LET dir_offset == index_offset + count * RecordSize + (k - 1) * DirRecordSize
    IN [name |-> read_string(file, dir_offset, 4),
        index |-> read_int32(file, dir_offset + 4)]

FolderNameOk(k) ==
    AsciiOk(file, index_offset + count * RecordSize + (k - 1) * DirRecordSize, 4)

\* lines 39-53: the directory table, then the walk's initial state
ReadFolders ==
    /\ pc = "folders"
    /\ IF dir_entries # 0 /\ dir_level = 2
       THEN IF \E k \in 1..dir_entries : ~FolderNameOk(k)
            THEN /\ Return("UnicodeDecodeError")
                 /\ index_reads' = index_reads
                        + Least({k \in 1..dir_entries : ~FolderNameOk(k)})
                 /\ UNCHANGED <<folders, is_mask_arc, dir, next_folder, folder,
                                current_folder, entry_i>>
            ELSE /\ folders' = [none |-> FALSE,
                                list |-> [k \in 1..dir_entries |-> FolderRecord(k)]]
                 /\ index_reads' = index_reads + dir_entries
                 /\ is_mask_arc' = (Lower(basename) = MaskArc)
                 /\ dir' = <<>>
                 /\ next_folder' = folders'.list[1].index
                 /\ folder' = 0
                 /\ current_folder' = <<>>
                 /\ entry_i' = 0
                 /\ pc' = "walk" /\ UNCHANGED result
       ELSE /\ folders' = [none |-> TRUE, list |-> <<>>]
            /\ index_reads' = index_reads
            /\ is_mask_arc' = (Lower(basename) = MaskArc)
            /\ dir' = <<>>
            /\ next_folder' = count
            /\ folder' = 0
            /\ current_folder' = <<>>
            /\ entry_i' = 0
            /\ pc' = "walk" /\ UNCHANGED result
    /\ UNCHANGED <<count, dir_entries, dir_level, index_offset>>
    /\ UNCHANGED <<directory, basename, file>>
    /\ UNCHANGED cvars

\* lines 56-59: the directory cursor after the while loop at flat entry n
RECURSIVE AdvanceFolder(_, _, _, _)
AdvanceFolder(n, cur, f, nf) ==
    IF n >= nf /\ f < Len(folders.list)
    THEN AdvanceFolder(n, folders.list[f + 1].name, f + 1,
                       IF f + 1 = Len(folders.list) THEN count
                       ELSE folders.list[f + 2].index)
    ELSE [current_folder |-> cur, folder |-> f, next_folder |-> nf]

\* one iteration of the for loop, lines 55-78
WalkEntry ==
    /\ pc = "walk"
    /\ entry_i < count
    /\ index_reads' = index_reads + 1
    /\ IF folders.none /\ entry_i >= next_folder
       THEN \* len(None)
            Return("TypeError") /\ UNCHANGED lvars
       ELSE LET adv == AdvanceFolder(entry_i, current_folder, folder, next_folder)
            IN IF ~AsciiOk(file, index_offset, 16)
               THEN Return("UnicodeDecodeError") /\ UNCHANGED lvars
               ELSE LET name == read_string(file, index_offset, 16)
                        offset == read_uint32(file, index_offset + 16)
                        size == read_uint32(file, index_offset + 20)
                    IN IF Len(name) = 0
                       THEN Return("None") /\ UNCHANGED lvars
                       ELSE IF ~is_mask_arc /\ ~CanRead(file, offset, 4)
                       THEN \* detect_file_type's read_uint32, line 71
                            Return("struct.error") /\ UNCHANGED lvars
                       ELSE LET entry == [name |-> path_join(adv.current_folder, name),
                                          offset |-> offset,
                                          size |-> size,
                                          type |-> IF ~is_mask_arc
                                                   THEN detect_file_type(file, offset)
                                                   ELSE "MSK/MAI"]
                            IN IF ~check_placement(entry, Len(file))
                               THEN Return("None") /\ UNCHANGED lvars
                               ELSE /\ dir' = Append(dir, entry)
                                    /\ index_offset' = index_offset + RecordSize
                                    /\ entry_i' = entry_i + 1
                                    /\ current_folder' = adv.current_folder
                                    /\ folder' = adv.folder
                                    /\ next_folder' = adv.next_folder
                                    /\ UNCHANGED <<count, dir_entries, dir_level, folders,
                                                   is_mask_arc, result, pc>>
    /\ UNCHANGED <<directory, basename, file>>
    /\ UNCHANGED cvars

\* line 80
ReturnEntries ==
    /\ pc = "walk"
    /\ ~(entry_i < count)
    /\ Return("opened")
    /\ UNCHANGED <<directory, basename, file, lvars, index_reads>>
    /\ UNCHANGED cvars

-----------------------------------------------------------------------------
\* pack_files, lines 140-190

\* s.rfind(c), 0-based, -1 when absent
RFind(s, c) == Greatest({-1} \cup {k - 1 : k \in {x \in 1..Len(s) : s[x] = c}})

\* os.path.splitext(p)[0] (posixpath): the last dot after the last slash is an
\* extension separator unless only dots precede it in the file name
splitext_root(p) ==
    LET sepIndex == RFind(p, Slash)
        dotIndex == RFind(p, Dot)
    IN IF dotIndex > sepIndex
          /\ \E k \in (sepIndex + 1)..(dotIndex - 1) : p[k + 1] # Dot
       THEN Slice(p, 0, dotIndex)
       ELSE p

\* .replace("\\", "/")
ReplaceBackslash(p) == [k \in DOMAIN p |-> IF p[k] = Backslash THEN Slash ELSE p[k]]

\* line 149: relative_path
relative_path(p) == splitext_root(ReplaceBackslash(p))

\* name.ljust(0x10, '\x00'): pads to 16 characters, never shortens
Ljust16(name) ==
    IF Len(name) >= 16 THEN name
    ELSE name \o [k \in 1..(16 - Len(name)) |-> 0]

\* HIRAGANA LETTER A (U+3042), a character cp932 encodes in two bytes
IsHiraganaA(c) == c = 12354

\* .encode('cp932') of text over ASCII and HIRAGANA LETTER A
RECURSIVE Cp932(_)
Cp932(s) ==
    IF s = <<>> THEN <<>>
    ELSE (IF IsHiraganaA(Head(s)) THEN <<130, 160>> ELSE <<Head(s)>>) \o Cp932(Tail(s))

\* lines 141-156: one entry per walked file
PackEntries(d) ==
    [k \in DOMAIN d |-> [name |-> relative_path(d[k].path),
                         size |-> Len(d[k].data),
                         data |-> d[k].data]]

\* the sum of the sizes of the first k entries
RECURSIVE SizeSum(_, _)
SizeSum(entries, k) == IF k = 0 THEN 0 ELSE entries[k].size + SizeSum(entries, k - 1)

\* lines 159-167: entry k's offset
PackOffset(entries, k) == HeaderSize + Len(entries) * RecordSize + SizeSum(entries, k - 1)

\* lines 183-186: the index records of entries k..
RECURSIVE PackIndex(_, _)
PackIndex(entries, k) ==
    IF k > Len(entries) THEN <<>>
    ELSE Cp932(Ljust16(entries[k].name))
         \o LE32(PackOffset(entries, k)) \o LE32(entries[k].size)
         \o PackIndex(entries, k + 1)

\* lines 189-190: the data of entries k..
RECURSIVE PackData(_, _)
PackData(entries, k) ==
    IF k > Len(entries) THEN <<>> ELSE entries[k].data \o PackData(entries, k + 1)

\* self.signature, line 18, as struct.pack('<I', ...) writes it
Signature == <<77, 65, 73, 10>>

\* lines 170-190: the bytes written
PackBytes(entries) ==
    LET total_size == PackOffset(entries, Len(entries) + 1)
    IN Signature \o LE32(total_size) \o LE32(Len(entries)) \o <<0, 1, 0, 0>>
       \o PackIndex(entries, 1) \o PackData(entries, 1)

\* pack_files; the archive is then opened (main, lines 211-212)
PackFiles ==
    /\ pc = "pack"
    /\ file' = PackBytes(PackEntries(directory))
    /\ pc' = "check_size"
    /\ UNCHANGED <<directory, basename, lvars, result, index_reads>>
    /\ UNCHANGED cvars

-----------------------------------------------------------------------------
\* Inputs of the archive side

MaxEntries == 5
MaxFolders == 2
MaxFiles == 2

\* archive names: "data.arc", "mask.arc", "MASK.ARC"
DataArc == <<100, 97, 116, 97, 46, 97, 114, 99>>
MaskArcUpper == <<77, 65, 83, 75, 46, 65, 82, 67>>
Basenames == {DataArc, MaskArc, MaskArcUpper}

\* a 4-byte little-endian field holding the signed v
LE32s(v) ==
    IF v >= 0 THEN LE32(v)
    ELSE LET u == (v + 2147483647) + 1
         IN <<u % 256, (u \div 256) % 256, (u \div 65536) % 256,
              ((u \div 16777216) % 256) + 128>>

\* a payload of n bytes that starts 'CM'
Payload(n) == [k \in 1..n |-> IF k = 1 THEN 67 ELSE IF k = 2 THEN 77 ELSE 0]

\* a 16-byte (or 4-byte) zero-padded name field
NameField(name, width) == name \o [k \in 1..(width - Len(name)) |-> 0]

RECURSIVE Records(_, _)
Records(recs, k) ==
    IF k > Len(recs) THEN <<>>
    ELSE NameField(recs[k].name, 16) \o LE32(recs[k].offset) \o LE32(recs[k].size)
         \o Records(recs, k + 1)

RECURSIVE DirRecords(_, _)
DirRecords(frecs, k) ==
    IF k > Len(frecs) THEN <<>>
    ELSE NameField(frecs[k].name, 4) \o LE32s(frecs[k].index) \o DirRecords(frecs, k + 1)

\* an archive file: the header fields as given (total = length + delta), the
\* flat records, the directory records, the payload
MakeFile(delta, count_field, lvl, de_field, recs, frecs, plen) ==
    LET len == HeaderSize + Len(recs) * RecordSize + Len(frecs) * DirRecordSize + plen
    IN Signature \o LE32(len + delta) \o LE32s(count_field) \o <<0, lvl>>
       \o <<de_field % 256, de_field \div 256>>
       \o Records(recs, 1) \o DirRecords(frecs, 1) \o Payload(plen)

FileLen(n, m, plen) == HeaderSize + n * RecordSize + m * DirRecordSize + plen

\* where an entry's data is said to lie in a file of len bytes whose payload
\* of plen bytes ends the file
Place(p, len, plen) ==
    CASE p = "ok" -> [offset |-> IF plen >= 4 THEN len - plen ELSE 0, size |-> 4]
      [] p = "tail" -> [offset |-> len - 1, size |-> 1]
      [] p = "empty_at_end" -> [offset |-> len, size |-> 0]
      [] p = "past" -> [offset |-> len - plen, size |-> plen + 1]
      [] p = "beyond" -> [offset |-> len, size |-> 1]
Places == {"ok", "tail", "empty_at_end", "past", "beyond"}

\* the name of flat entry k: "b", "c", ... or "/b", "/c", ...
EntryName(k, style) == IF style = "abs" THEN <<Slash, 97 + k>> ELSE <<97 + k>>

\* the name of directory j: "BB", "C/", "DD", ...
FolderName(j) == IF j % 2 = 1 THEN <<65 + j, 65 + j>> ELSE <<65 + j, Slash>>

\* files with header faults and sound records
HeaderFiles ==
    {MakeFile(delta, cf, lvl, de,
              [k \in 1..n |-> [name |-> EntryName(k, "rel")]
                              @@ Place("ok", FileLen(n, m, plen), plen)],
              [j \in 1..m |-> [name |-> FolderName(j), index |-> 0]],
              plen) :
        n \in 1..MaxEntries, m \in 0..1, lvl \in {1, 2}, delta \in {-1, 0, 1},
        cf \in {-1, 0, 1048575, 1048576} \cup 1..(MaxEntries + 1),
        de \in {0, 1, 2, 65535}, plen \in {0, 4, 24}}

\* files with a sound header, no directory table, and one flat record k whose
\* name or placement is as chosen
PlacementFiles ==
    {MakeFile(0, n, 1, 0,
              [j \in 1..n |->
                  IF j = k THEN [name |-> nm] @@ Place(p, FileLen(n, 0, 8), 8)
                  ELSE [name |-> EntryName(j, "rel")] @@ Place("ok", FileLen(n, 0, 8), 8)],
              <<>>, 8) :
        n \in 1..MaxEntries, k \in 1..MaxEntries, p \in Places,
        nm \in {<<97>>, <<>>, <<130, 160>>}}

\* files with a sound header and sound records, and a directory table of m
\* records with any start indices
DirectoryFiles ==
    UNION {{MakeFile(0, n, lvl, m,
                     [k \in 1..n |-> [name |-> EntryName(k, style)]
                                     @@ Place("ok", FileLen(n, m, 8), 8)],
                     [j \in 1..m |-> [name |-> FolderName(j), index |-> idx[j]]],
                     8) :
              idx \in [1..m -> -1..n]} :
        n \in 1..MaxEntries, m \in 0..MaxFolders, lvl \in {1, 2}, style \in {"rel", "abs"}}

\* walked files: "a.bin", "s/b.cm", ".hid", a 16-character stem, a
\* 17-character stem, a name with a two-byte character
Paths == {<<97, 46, 98, 105, 110>>,
          <<115, 47, 98, 46, 99, 109>>,
          <<46, 104, 105, 100>>,
          [k \in 1..16 |-> 96 + k] \o <<Dot, 120>>,
          [k \in 1..17 |-> 96 + k] \o <<Dot, 120>>,
          <<12354, Dot, 120>>}
Payloads == {<<>>, <<88>>, <<67, 77, 0, 0>>, <<66, 77, 1, 2, 3>>}

\* directories of up to MaxFiles files with distinct paths
Listings ==
    {d \in UNION {[1..n -> [path : Paths, data : Payloads]] : n \in 0..MaxFiles} :
        \A a, b \in DOMAIN d : a # b => d[a].path # d[b].path}

-----------------------------------------------------------------------------
\* Specifications

CodecIdle ==
    /\ input_data = <<>> /\ pixel_size = 1 /\ i = 0 /\ output = <<>> /\ segs = <<>>
    /\ enc_status = "running" /\ image_data = <<>> /\ decoded = <<>>
    /\ dec_status = "none" /\ cpc = "idle"

LocalsUnset ==
    /\ count = 0 /\ dir_entries = 0 /\ dir_level = 0 /\ index_offset = 0
    /\ folders = [none |-> TRUE, list |-> <<>>] /\ is_mask_arc = FALSE /\ dir = <<>>
    /\ next_folder = 0 /\ folder = 0 /\ current_folder = <<>> /\ entry_i = 0
    /\ result = "pending" /\ index_reads = 0

ArcIdle ==
    /\ directory = <<>> /\ basename = <<>> /\ file = <<>>
    /\ LocalsUnset
    /\ pc = "idle"

\* try_open on an archive file
OpenInit ==
    /\ file \in HeaderFiles \cup PlacementFiles \cup DirectoryFiles
    /\ basename \in Basenames
    /\ directory = <<>>
    /\ LocalsUnset
    /\ pc = "check_size"
    /\ CodecIdle

TryOpen ==
    \/ CheckSize
    \/ CheckCount
    \/ CheckIndexSize
    \/ ReadFolders
    \/ WalkEntry
    \/ ReturnEntries

SpecOpen == OpenInit /\ [][TryOpen]_vars

\* pack_files on a directory, then try_open on what it wrote
PackInit ==
    /\ directory \in Listings
    /\ basename \in {DataArc, MaskArcUpper}
    /\ file = <<>>
    /\ LocalsUnset
    /\ pc = "pack"
    /\ CodecIdle

PackNext == PackFiles \/ TryOpen

SpecPack == PackInit /\ [][PackNext]_vars

-----------------------------------------------------------------------------
CodecInit ==
    /\ pixel_size \in PixelSizes
    /\ input_data \in {Build(bs, pixel_size) \o t : bs \in BlockSeqs, t \in Tails(pixel_size)}
    /\ i = 0
    /\ output = <<>>
    /\ segs = <<>>
    /\ enc_status = "running"
    /\ image_data = <<>>
    /\ decoded = <<>>
    /\ dec_status = "none"
    /\ cpc = "encode"
    /\ ArcIdle

CodecNext ==
    \/ EncodeSegment
    \/ EncodeReturn
    \/ \E cut \in 0..MaxCut : ReadData(cut)
    \/ RleDecode

SpecCodec == CodecInit /\ [][CodecNext]_vars

-----------------------------------------------------------------------------
\* Properties of the codec

Aligned == Len(input_data) % pixel_size = 0

\* the number of whole pixels of input_data and its k-th pixel (0-based)
NPix == Len(input_data) \div pixel_size
Px(k) == Slice(input_data, k * pixel_size, (k + 1) * pixel_size)

\* the segments of a byte stream read from its first byte, as <<kind, count>>
\* pairs; a segment that declares more bytes than the stream holds is "short"
RECURSIVE ParseFrom(_, _, _)
ParseFrom(data, ps, j) ==
    IF j >= Len(data) THEN <<>>
    ELSE LET code == data[j + 1]
             need == IF code >= 128 THEN ps ELSE code * ps
         IN IF j + 1 + need > Len(data)
            THEN <<[kind |-> "short", count |-> code % 128]>>
            ELSE <<[kind |-> IF code >= 128 THEN "repeat" ELSE "literal",
                    count |-> code % 128]>> \o ParseFrom(data, ps, j + 1 + need)

Parsed(data, ps) == ParseFrom(data, ps, 0)

Overrun(data, ps) == \E k \in DOMAIN Parsed(data, ps) : Parsed(data, ps)[k].kind = "short"

FullRead == image_data = output

\* C1: decoding the whole encoding of a pixel-aligned buffer (empty, or any mix
\* of runs, runs longer than 127 pixels, pairs and literal spans) returns the
\* buffer exactly
C1_RoundTrip ==
    (cpc = "decoded" /\ Aligned /\ FullRead)
        => (dec_status = "returned" /\ decoded = input_data)

\* a round trip through a run cut at the 127-pixel cap and a literal span
C1_Witness ==
    /\ cpc = "decoded" /\ Aligned /\ FullRead /\ decoded = input_data
    /\ NPix > RunCap
    /\ \E a, b \in DOMAIN segs :
          /\ segs[a].kind = "repeat" /\ segs[a].count = RunCap
          /\ segs[b].kind = "literal"

\* C2: the encoding of a pixel-aligned buffer, read from its first byte, is a
\* sequence of complete segments, the very ones the encoder emitted: each
\* repeat has a count in 2..127 and one pixel, each literal a count in 1..127
\* and count pixels
C2_SegmentsWellFormed ==
    Aligned =>
        LET ps == Parsed(output, pixel_size)
        IN /\ Len(ps) = Len(segs)
           /\ \A k \in DOMAIN ps :
                 /\ ps[k].kind = segs[k].kind
                 /\ ps[k].count = segs[k].count
                 /\ ps[k].kind = "repeat" => ps[k].count \in 2..127
                 /\ ps[k].kind = "literal" => ps[k].count \in 1..127

\* an encoding with a literal and a repeat both cut at the cap
C2_Witness ==
    /\ cpc = "written" /\ Aligned
    /\ \E a, b \in DOMAIN segs :
          /\ segs[a].kind = "repeat" /\ segs[a].count = RunCap
          /\ segs[b].kind = "literal" /\ segs[b].count = RunCap

\* C3: rle_decode raises, and returns no buffer, when a segment of its input
\* declares more bytes than the input holds
C3_DecodeSurfacesOverrun ==
    (cpc = "decoded" /\ Overrun(image_data, pixel_size)) => dec_status = "raised"

\* C4: rle_encode fails, with no output, on a buffer whose length is not a
\* multiple of pixel_size
C4_EncodeRejectsUnaligned ==
    (cpc # "encode" /\ ~Aligned) => (enc_status = "raised" /\ output = <<>>)

\* three consecutive identical pixels begin at pixel p
TriplePx(p) == p + 2 < NPix /\ Px(p) = Px(p + 1) /\ Px(p + 1) = Px(p + 2)

\* segment s, from pixel a to pixel b (exclusive), is the greedy choice at a
GreedySegment(s) ==
    LET a == s.start \div pixel_size
        b == s.end \div pixel_size
    IN /\ s.start = a * pixel_size /\ s.end = b * pixel_size
       /\ b - a = s.count
       /\ s.kind = "repeat" <=> (a + 1 < NPix /\ Px(a) = Px(a + 1))
       /\ s.kind = "repeat" =>
             /\ s.count \in 2..RunCap
             /\ \A p \in (a + 1)..(b - 1) : Px(p) = Px(a)
             /\ s.count = RunCap \/ b = NPix \/ Px(b) # Px(a)
       /\ s.kind = "literal" =>
             /\ s.count \in 1..RunCap
             /\ \A p \in (a + 1)..(b - 1) : ~TriplePx(p)
             /\ s.count = RunCap \/ b = NPix \/ TriplePx(b)
             \* no three consecutive identical pixels inside the literal
             /\ \A p \in a..(b - 3) : ~(Px(p) = Px(p + 1) /\ Px(p + 1) = Px(p + 2))
             \* a pair with no third pixel after it does not end the literal:
             \* only the cap can fall between the two
             /\ \A p \in (a + 1)..(b - 1) :
                   (p + 1 < NPix /\ Px(p) = Px(p + 1) /\ ~TriplePx(p))
                       => (p + 1 < b \/ s.count = RunCap)

\* C10: on a pixel-aligned buffer the segments follow one another from pixel
\* 0, and each is the greedy one: a repeat exactly when the first pixel equals
\* the next, covering the maximal run capped at 127; otherwise a literal that
\* ends only at the buffer end, at the cap, or right before the first later
\* position where three identical pixels begin
C10_GreedySegmentation ==
    \* segs and i change only while encoding
    (Aligned /\ cpc \in {"encode", "written"}) =>
        /\ \A k \in DOMAIN segs :
              /\ segs[k].start = (IF k = 1 THEN 0 ELSE segs[k - 1].end)
              /\ GreedySegment(segs[k])
              \* a pair the cap falls between stays literal: no repeat is made of it
              /\ (/\ k < Len(segs) /\ segs[k].kind = "literal"
                  /\ segs[k].end \div pixel_size < NPix
                  /\ Px((segs[k].end \div pixel_size) - 1) = Px(segs[k].end \div pixel_size)
                  /\ ~TriplePx((segs[k].end \div pixel_size) - 1))
                    => segs[k + 1].kind = "literal"
        /\ i = (IF segs = <<>> THEN 0 ELSE segs[Len(segs)].end)
        /\ cpc # "encode" => i = Len(input_data)

\* a literal that keeps a pair of equal pixels inside and ends, before the
\* cap and before the buffer end, where three identical pixels begin
C10_Witness ==
    /\ cpc = "written" /\ Aligned
    /\ \E k \in DOMAIN segs :
          LET a == segs[k].start \div pixel_size
              b == segs[k].end \div pixel_size
          IN /\ segs[k].kind = "literal"
             /\ segs[k].count < RunCap /\ b < NPix /\ TriplePx(b)
             /\ \E p \in (a + 1)..(b - 2) : Px(p) = Px(p + 1)
             /\ k < Len(segs) /\ segs[k + 1].kind = "repeat"

-----------------------------------------------------------------------------
\* Properties of the archive side, stated from the bytes of the file

TotalSizeField == read_uint32(file, 4)
EntryCountField == read_int32(file, 8)
DirLevelField == read_byte(file, 13)
DirEntryCountField == read_uint16(file, 14)

\* one of the three header conditions fails
HeaderBad ==
    \/ TotalSizeField # Len(file)
    \/ EntryCountField <= 0
    \/ EntryCountField > 1048575
    \/ EntryCountField * 24 + DirEntryCountField * 8 > Len(file) - 16

\* flat record k (0-based)
FlatNameBytes(k) == Slice(file, 16 + k * 24, 16 + k * 24 + 16)
FlatName(k) == RStrip0(FlatNameBytes(k))
FlatOffset(k) == read_uint32(file, 16 + k * 24 + 16)
FlatSize(k) == read_uint32(file, 16 + k * 24 + 20)

\* directory record j (1-based)
DirName(j) == RStrip0(Slice(file, 16 + EntryCountField * 24 + (j - 1) * 8,
                            16 + EntryCountField * 24 + (j - 1) * 8 + 4))
DirStart(j) == read_int32(file, 16 + EntryCountField * 24 + (j - 1) * 8 + 4)

IsPrefix(a, b) == Len(a) <= Len(b) /\ SubSeq(b, 1, Len(a)) = a
IsSuffix(a, b) == Len(a) <= Len(b) /\ SubSeq(b, Len(b) - Len(a) + 1, Len(b)) = a

\* C5: in a file that passes the header checks (and whose flat names are all
\* ASCII), a flat entry with offset + size > fileSize makes try_open return
\* None: no entry list, no exception, wherever the offset lies and whatever
\* the archive is called
C5_PlacementFailsClosed ==
    (/\ pc = "done"
     /\ ~HeaderBad
     /\ \A k \in 0..(EntryCountField - 1) :
           \A b \in DOMAIN FlatNameBytes(k) : FlatNameBytes(k)[b] < 128
     /\ \E k \in 0..(EntryCountField - 1) : FlatOffset(k) + FlatSize(k) > Len(file))
        => result = "None"

\* C6: try_open returns None, having read no index record, when the total
\* size at 0x04 is not the file's length, or the signed count at 0x08 is <= 0
\* or > 0xFFFFF, or count*0x18 + dirEntryCount*8 exceeds fileSize - 0x10; so an
\* accepted archive satisfies all three
C6_HeaderGate ==
    /\ HeaderBad => /\ pc \in {"check_size", "check_count", "check_index", "done"}
                    /\ index_reads = 0
                    /\ pc = "done" => result = "None"
    /\ result = "opened" => ~HeaderBad

\* a file with the right total size and a count in range, rejected because the
\* index does not fit
C6_Witness ==
    /\ pc = "done" /\ result = "None" /\ index_reads = 0
    /\ TotalSizeField = Len(file)
    /\ EntryCountField > 0 /\ EntryCountField <= 1048575
    /\ EntryCountField * 24 + DirEntryCountField * 8 > Len(file) - 16

HasTable == DirLevelField = 2 /\ DirEntryCountField # 0

NonDecreasingStarts ==
    \A j \in 1..(DirEntryCountField - 1) : DirStart(j) <= DirStart(j + 1)

\* the directories k with s_k <= n < s_(k+1), where s_(m+1) = entryCount
OwningDirs(n) ==
    {k \in 1..DirEntryCountField :
        /\ DirStart(k) <= n
        /\ n < (IF k = DirEntryCountField THEN EntryCountField ELSE DirStart(k + 1))}

\* the name of the directory that owns flat entry n; empty when none does
ExpectedFolder(n) ==
    IF ~HasTable \/ OwningDirs(n) = {} THEN <<>>
    ELSE DirName(CHOOSE k \in OwningDirs(n) : TRUE)

\* C7: in an accepted archive whose directory table (if any) has
\* non-decreasing start indices, the entries are the flat records in on-disk
\* order, the path of entry n is prefixed with the name of the directory k
\* with s_k <= n < s_(k+1), and entries before s_0, or of an archive with no
\* table, have the empty prefix
C7_DirectoryResolution ==
    (result = "opened" /\ (HasTable => NonDecreasingStarts)) =>
        /\ Len(dir) = EntryCountField
        /\ \A n \in 0..(EntryCountField - 1) :
              /\ dir[n + 1].offset = FlatOffset(n)
              /\ dir[n + 1].size = FlatSize(n)
              /\ IsSuffix(FlatName(n), dir[n + 1].name)
              /\ IsPrefix(ExpectedFolder(n), dir[n + 1].name)
              /\ ExpectedFolder(n) = <<>> => dir[n + 1].name = FlatName(n)

\* directory names joined to an entry name that does not begin with "/"
JoinedPath(d, name) ==
    IF d = <<>> THEN name
    ELSE IF d[Len(d)] = Slash THEN d \o name
    ELSE d \o <<Slash>> \o name

\* the cursor itself is right: when no flat name begins with "/", every
\* path is the owning directory's name joined to the flat name
DirectoryResolutionOfRelativeNames ==
    (/\ result = "opened"
     /\ HasTable => NonDecreasingStarts
     /\ \A n \in 0..(EntryCountField - 1) : FlatName(n)[1] # Slash) =>
        /\ Len(dir) = EntryCountField
        /\ \A n \in 0..(EntryCountField - 1) :
              dir[n + 1].name = JoinedPath(ExpectedFolder(n), FlatName(n))

\* bytes cut or zero-padded to exactly 16
PadTrunc16(b) == Slice(b \o [k \in 1..16 |-> 0], 0, 16)

\* C8: the archive pack_files writes for a directory of N >= 1 files is
\* accepted by try_open and resolves to N entries, in order, named by the
\* relative paths without extension, whose byte ranges hold the files' bytes
C8_BuildThenResolve ==
    (pc = "done" /\ Len(directory) >= 1) =>
        /\ result = "opened"
        /\ Len(dir) = Len(directory)
        /\ \A k \in DOMAIN directory :
              /\ dir[k].name = relative_path(directory[k].path)
              /\ Slice(file, dir[k].offset, dir[k].offset + dir[k].size)
                    = directory[k].data

\* C9: pack_files writes a 0x10-byte header, one 0x18-byte record per entry
\* with a name field of exactly 16 bytes (padded or truncated), offsets
\* 0x10 + N*0x18 + the sizes before, the payloads at those offsets, and a total
\* size equal to the output's length
C9_BuildLayout ==
    (pc # "pack" /\ pc # "idle") =>
        LET es == PackEntries(directory)
            N == Len(es)
        IN /\ Len(file) = 16 + N * 24 + SizeSum(es, N)
           /\ TotalSizeField = Len(file)
           /\ \A k \in 1..N :
                 /\ FlatNameBytes(k - 1) = PadTrunc16(Cp932(es[k].name))
                 /\ FlatOffset(k - 1) = 16 + N * 24 + SizeSum(es, k - 1)
                 /\ FlatSize(k - 1) = es[k].size
                 /\ Slice(file, FlatOffset(k - 1), FlatOffset(k - 1) + es[k].size)
                       = es[k].data

=============================================================================
